---- MODULE Spec2Model ----
(***************************************************************************)
(* Data-fetching cache synchronisation layer of the petstore demo:         *)
(* query keys (petstoreKeys), the query hooks and their policies, the      *)
(* mutation handlers of the demo route, the SSR loaders, and the cache     *)
(* engine they drive (Cache Store, Fetch Coordinator, Hydration Bridge,    *)
(* Invalidation Coordinator).  Keys, hooks, handlers and loaders follow    *)
(* the source files; the cache engine is the query library behind the      *)
(* hooks, and its steps follow sections 4.4 to 4.6 of the design           *)
(* specification.                                                          *)
(***************************************************************************)
EXTENDS Integers, Sequences, FiniteSets, TLC

\* ------------------------------------------------------------------------
\* Bounds of the exploration
\* ------------------------------------------------------------------------
MaxFetches == 2
MaxTicks == 1
MaxMutations == 1
\* fetchUser calls of the AuthProvider
MaxUserFetches == 2

\* ------------------------------------------------------------------------
\* Key segments.  A key is a sequence of segments; a segment is a string, a
\* number or an array of strings (the status filter).  Every segment is a
\* record of the same shape so that segments of different kinds compare.
\* ------------------------------------------------------------------------
Str(s) == [kind |-> "str", s |-> s, n |-> 0, a |-> <<>>]

Num(n) == [kind |-> "num", s |-> "", n |-> n, a |-> <<>>]

Arr(a) == [kind |-> "arr", s |-> "", n |-> 0, a |-> a]

\* petstoreKeys (Query Keys Factory)
all == <<Str("petstore")>>

pets == all \o <<Str("pets")>>

pet(id) == pets \o <<Num(id)>>

petsByStatus(status) == pets \o <<Str("status"), Arr(status)>>

inventory == all \o <<Str("inventory")>>

orders == all \o <<Str("orders")>>

order(id) == orders \o <<Num(id)>>

\* ------------------------------------------------------------------------
\* Program constants
\* ------------------------------------------------------------------------
\* Default stale time for queries (2 minutes)
DEFAULT_STALE_TIME == 1000 * 60 * 2

\* staleTime the demo route passes to useGetInventory
InventoryStaleTime == 10000

\* ------------------------------------------------------------------------
\* Value spaces
\* ------------------------------------------------------------------------
Sides == {"server", "client"}

Callers == {"c1", "c2"}

DataVals == {"d1", "d2"}

ErrVals == {"NetworkError", "AuthError"}

NoData == "null"

NoErr == "none"

NoTime == -1

NoKey == <<>>

\* the clock advances by these amounts
Deltas == {InventoryStaleTime, DEFAULT_STALE_TIME}

\* hook arguments explored
StatusArgs == {<<"available">>}

IdArgs == {0, 1}

OrderIdArgs == {-1, 0, 1}

\* caller-supplied query options: an optional staleTime
NoOptions == [hasStale |-> FALSE, staleTime |-> 0]

StaleOption(t) == [hasStale |-> TRUE, staleTime |-> t]

HookOptions == {NoOptions, StaleOption(0), StaleOption(-1),
                StaleOption(InventoryStaleTime)}

\* the options that differ while the clock stands still
FewOptions == {NoOptions, StaleOption(0)}

VARIABLES
    store,      \* store[side]: function from the keys present to entries
    pending,    \* pending[side]: function from keys to PendingRequest
    inflight,   \* set of underlying fetch calls not yet settled
    nextFid,    \* id given to the next underlying fetch call
    callers,    \* callers[c]: what caller c is waiting for or received
    now,        \* the clock
    ticks,      \* number of clock advances so far
    mutations,  \* mutations[m]: state of mutation m
    nMut,       \* number of mutations started so far
    payload,    \* the hydration payload in transit (a set of triples)
    ssr,        \* the route loader: its position, variant and local pets
    config,     \* the configuration of the generated client, shared
    sent,       \* the outgoing resource calls made so far
    rq,         \* rq[r]: the server-side render of request r
    stored,     \* the item of localStorage under STORAGE_KEY
    qc,         \* qc[r]: the QueryClient of the router of render r
    provider    \* the AuthProvider: its state and its fetchUser calls

vars == <<store, pending, inflight, nextFid, callers, now, ticks,
          mutations, nMut, payload, ssr, config, sent, rq,
          stored, qc, provider>>

\* the state of the browser page and of the routers
pagevars == <<stored, qc, provider>>

\* the state of the auth layer
authvars == <<config, sent, rq, stored, qc, provider>>

\* the state of the cache layer and of the route loader
cachevars == <<store, pending, inflight, nextFid, callers, now, ticks,
               mutations, nMut, payload, ssr>>

\* what the Fetch Coordinator does not touch
others == <<now, ticks, mutations, nMut, payload, ssr, config, sent, rq,
            stored, qc, provider>>

\* ------------------------------------------------------------------------
\* Cache Store
\* ------------------------------------------------------------------------
Put(f, k, v) == [x \in (DOMAIN f) \cup {k} |-> IF x = k THEN v ELSE f[x]]

Remove(f, k) == [x \in (DOMAIN f) \ {k} |-> f[x]]

EmptyStore == [x \in {} |-> 0]

Has(s, key) == key \in DOMAIN store[s]

\* scanByPrefix: the key sequence starts with prefix
StartsWith(key, prefix) ==
    /\ Len(prefix) <= Len(key)
    /\ \A i \in 1..Len(prefix) : key[i] = prefix[i]

Entry(st, d, t, e) == [status |-> st, data |-> d, fetchedAt |-> t, error |-> e]

\* ------------------------------------------------------------------------
\* Callers of the Fetch Coordinator
\* ------------------------------------------------------------------------
IdleCaller == [st |-> "idle", side |-> "client", key |-> NoKey, fid |-> 0,
               kind |-> "none", val |-> NoData]

Waiting(s, key, f) == [st |-> "waiting", side |-> s, key |-> key, fid |-> f,
                       kind |-> "none", val |-> NoData]

Done(s, key, f, kind, v) == [st |-> "done", side |-> s, key |-> key, fid |-> f,
                             kind |-> kind, val |-> v]

WaitersOf(s, key) ==
    IF key \in DOMAIN pending[s] THEN pending[s][key].waiters ELSE {}

\* ------------------------------------------------------------------------
\* Fetch Coordinator: getOrFetch(key, fetchFn, policy)
\* ------------------------------------------------------------------------
\* faulty variant: an entry marked stale is still served inside its stale time
Fresh_servesStale(s, key, staleMs) ==
    /\ Has(s, key)
    /\ store[s][key].status \in {"success", "stale"}
    /\ now - store[s][key].fetchedAt < staleMs

\* step 2: the entry can be served without calling fetchFn
Fresh(s, key, staleMs) ==
    /\ Has(s, key)
    /\ store[s][key].status = "success"
    /\ now - store[s][key].fetchedAt < staleMs

\* faulty variant: a PendingRequest is never found, every miss starts a fetch
Coalesces_never(s, key) == FALSE

\* step 3: a PendingRequest for key already exists
Coalesces(s, key) == key \in DOMAIN pending[s]

\* the entry written when the fetch starts: data of a replaced entry stays
LoadingEntry(s, key) ==
    IF Has(s, key)
    THEN [store[s][key] EXCEPT !.status = "loading"]
    ELSE Entry("loading", NoData, NoTime, NoErr)

\* faulty variant: the enabled flag of the policy is not looked at
ShortCircuits_never(enabled) == FALSE

\* edge case: a policy with enabled=false touches neither store nor network
ShortCircuits(enabled) == ~enabled

GetOrFetch(s, c, key, staleMs, enabled) ==
    /\ callers[c].st # "waiting"
    /\ IF ShortCircuits(enabled)
       THEN /\ callers' = [callers EXCEPT ![c] = IdleCaller]
            /\ UNCHANGED <<store, pending, inflight, nextFid>>
       ELSE IF Fresh(s, key, staleMs)
       THEN /\ callers' = [callers EXCEPT
                   ![c] = Done(s, key, 0, "data", store[s][key].data)]
            /\ UNCHANGED <<store, pending, inflight, nextFid>>
       ELSE IF Coalesces(s, key)
       THEN /\ pending' = [pending EXCEPT ![s][key].waiters = @ \cup {c}]
            /\ callers' = [callers EXCEPT
                   ![c] = Waiting(s, key, pending[s][key].fid)]
            /\ UNCHANGED <<store, inflight, nextFid>>
       ELSE /\ nextFid <= MaxFetches
            /\ store' = [store EXCEPT ![s] = Put(@, key, LoadingEntry(s, key))]
            /\ pending' = [pending EXCEPT
                   ![s] = Put(@, key, [fid |-> nextFid,
                                       waiters |-> WaitersOf(s, key) \cup {c}])]
            /\ inflight' = inflight \cup
                   {[fid |-> nextFid, side |-> s, key |-> key]}
            /\ nextFid' = nextFid + 1
            /\ callers' = [callers EXCEPT ![c] = Waiting(s, key, nextFid)]

\* faulty variant: only the caller that started the fetch is settled
Resolve_firstOnly(s, key, f, kind, v) ==
    [c \in Callers |->
        IF /\ c \in WaitersOf(s, key)
           /\ pending[s][key].fid = f
           /\ c = CHOOSE w \in WaitersOf(s, key) : TRUE
        THEN Done(s, key, f, kind, v)
        ELSE callers[c]]

\* step 5 and 6: the fetch f settles; every waiter gets the outcome
Resolve(s, key, f, kind, v) ==
    [c \in Callers |->
        IF c \in WaitersOf(s, key) /\ pending[s][key].fid = f
        THEN Done(s, key, f, kind, v)
        ELSE callers[c]]

\* faulty variant: the PendingRequest outlives the settlement
DropPending_keeps(s, key, f) == pending

\* the PendingRequest of the settled fetch is removed
DropPending(s, key, f) ==
    IF key \in DOMAIN pending[s] /\ pending[s][key].fid = f
    THEN [pending EXCEPT ![s] = Remove(@, key)]
    ELSE pending

\* faulty variant: the failure is cached like a result
ErrorEntry_cached(s, key, e) ==
    IF Has(s, key)
    THEN [store[s][key] EXCEPT !.status = "success", !.error = e,
                               !.fetchedAt = now]
    ELSE Entry("success", NoData, now, e)

\* the entry a failed fetch leaves behind
ErrorEntry(s, key, e) ==
    IF Has(s, key)
    THEN [store[s][key] EXCEPT !.status = "error", !.error = e]
    ELSE Entry("error", NoData, NoTime, e)

SettleSuccess(f, d) ==
    /\ f \in inflight
    /\ store' = [store EXCEPT
           ![f.side] = Put(@, f.key, Entry("success", d, now, NoErr))]
    /\ callers' = Resolve(f.side, f.key, f.fid, "data", d)
    /\ pending' = DropPending(f.side, f.key, f.fid)
    /\ inflight' = inflight \ {f}
    /\ nextFid' = nextFid

SettleError(f, e) ==
    /\ f \in inflight
    /\ store' = [store EXCEPT ![f.side] = Put(@, f.key, ErrorEntry(f.side, f.key, e))]
    /\ callers' = Resolve(f.side, f.key, f.fid, "error", e)
    /\ pending' = DropPending(f.side, f.key, f.fid)
    /\ inflight' = inflight \ {f}
    /\ nextFid' = nextFid

\* ------------------------------------------------------------------------
\* Invalidation Coordinator: invalidate(prefix)
\* ------------------------------------------------------------------------
\* faulty variant: the entries under the prefix are removed
invalidate_removes(st, prefix) ==
    [k \in {x \in DOMAIN st : ~StartsWith(x, prefix)} |-> st[k]]

invalidate(st, prefix) ==
    [k \in DOMAIN st |->
        IF StartsWith(k, prefix) THEN [st[k] EXCEPT !.status = "stale"]
        ELSE st[k]]

\* the helpers exported next to the hooks
invalidateAllPetstoreQueries(st) == invalidate(st, all)

\* faulty variant: the helper uses the key of the status lists only
invalidatePetQueries_statusOnly(st) == invalidate(st, pets \o <<Str("status")>>)

invalidatePetQueries(st) == invalidate(st, pets)

\* faulty variant: the inventory helper invalidates the whole domain
invalidateInventoryQueries_all(st) == invalidate(st, all)

invalidateInventoryQueries(st) == invalidate(st, inventory)

invalidateOrderQueries(st) == invalidate(st, orders)

HelperNames == {"invalidateAllPetstoreQueries", "invalidatePetQueries",
                "invalidateInventoryQueries", "invalidateOrderQueries"}

RunHelper(h, st) ==
    CASE h = "invalidateAllPetstoreQueries" -> invalidateAllPetstoreQueries(st)
      [] h = "invalidatePetQueries" -> invalidatePetQueries(st)
      [] h = "invalidateInventoryQueries" -> invalidateInventoryQueries(st)
      [] h = "invalidateOrderQueries" -> invalidateOrderQueries(st)

\* a caller runs one of the helpers on the store of side s
InvalidateBy(s, h) ==
    /\ store' = [store EXCEPT ![s] = RunHelper(h, @)]
    /\ UNCHANGED <<pending, inflight, nextFid, callers, now, ticks,
                   mutations, nMut, payload, ssr>>
    /\ UNCHANGED authvars

\* deeper prefixes handed to invalidate directly: one entity, one list
Prefixes == {pet(1), petsByStatus(<<"available">>)}

Invalidate(s, prefix) ==
    /\ store' = [store EXCEPT ![s] = invalidate(@, prefix)]
    /\ UNCHANGED <<pending, inflight, nextFid, callers, now, ticks,
                   mutations, nMut, payload, ssr>>
    /\ UNCHANGED authvars

\* ------------------------------------------------------------------------
\* Query hooks: key, enabled flag and stale time of each read
\* ------------------------------------------------------------------------
\* faulty variant: the options of the hook do not reach the query
StaleTimeOf_defaultOnly(options) == DEFAULT_STALE_TIME

\* queries.staleTime of the QueryClient, overridden by the hook's options
StaleTimeOf(options) ==
    IF options.hasStale THEN options.staleTime ELSE DEFAULT_STALE_TIME

\* faulty variant: the hook reads under the key of all pet queries
useFindPetsByStatus_petsKey(s, c, status, options) ==
    /\ GetOrFetch(s, c, pets, StaleTimeOf(options), TRUE)
    /\ UNCHANGED others

useFindPetsByStatus(s, c, status, options) ==
    /\ GetOrFetch(s, c, petsByStatus(status), StaleTimeOf(options), TRUE)
    /\ UNCHANGED others

useGetPetById(s, c, petId, options) ==
    /\ GetOrFetch(s, c, pet(petId), StaleTimeOf(options), petId > 0)
    /\ UNCHANGED others

useGetInventory(s, c, options) ==
    /\ GetOrFetch(s, c, inventory, StaleTimeOf(options), TRUE)
    /\ UNCHANGED others

useGetOrderById(s, c, orderId, options) ==
    /\ GetOrFetch(s, c, order(orderId), StaleTimeOf(options), orderId > 0)
    /\ UNCHANGED others

\* queryKey of useCurrentUser: a key outside the petstore domain
currentUser == <<Str("auth"), Str("currentUser")>>

\* staleTime of useCurrentUser
CurrentUserStaleTime == 1000 * 60 * 5

\* useQuery of the AuthProvider that reads the user through the cache
useCurrentUser(s, c) ==
    /\ GetOrFetch(s, c, currentUser, CurrentUserStaleTime, TRUE)
    /\ UNCHANGED others

\* ------------------------------------------------------------------------
\* Mutations and the handlers the demo route gives them
\* ------------------------------------------------------------------------
MutationNames == {"addPet", "updatePet", "deletePet", "placeOrder"}

IdleMutation == [st |-> "idle", err |-> NoErr]

\* faulty variant: no success handler invalidates the inventory
onSuccess_petsOnly(m, st) ==
    IF m = "placeOrder" THEN st ELSE invalidatePetQueries(st)

\* onSuccess of addPetMutation, updatePetMutation, deletePetMutation;
\* usePlaceOrder is given no handlers
onSuccess(m, st) ==
    CASE m = "addPet" -> invalidateInventoryQueries(invalidatePetQueries(st))
      [] m = "updatePet" -> invalidatePetQueries(st)
      [] m = "deletePet" -> invalidatePetQueries(st)
      [] OTHER -> st

\* faulty variant: the error handler invalidates like the success handler
onError_invalidates(m, st) == invalidatePetQueries(st)

\* onError of the three mutations: an alert, nothing else
onError(m, st) == st

Mutate(m) ==
    /\ nMut < MaxMutations
    /\ mutations[m].st # "pending"
    /\ mutations' = [mutations EXCEPT ![m] = [st |-> "pending", err |-> NoErr]]
    /\ nMut' = nMut + 1
    /\ UNCHANGED <<store, pending, inflight, nextFid, callers, now, ticks,
                   payload, ssr>>
    /\ UNCHANGED authvars

MutationSuccess(m) ==
    /\ mutations[m].st = "pending"
    /\ mutations' = [mutations EXCEPT ![m] = [st |-> "success", err |-> NoErr]]
    /\ store' = [store EXCEPT !["client"] = onSuccess(m, @)]
    /\ UNCHANGED <<pending, inflight, nextFid, callers, now, ticks, nMut,
                   payload, ssr>>
    /\ UNCHANGED authvars

MutationError(m, e) ==
    /\ mutations[m].st = "pending"
    /\ mutations' = [mutations EXCEPT ![m] = [st |-> "error", err |-> e]]
    /\ store' = [store EXCEPT !["client"] = onError(m, @)]
    /\ UNCHANGED <<pending, inflight, nextFid, callers, now, ticks, nMut,
                   payload, ssr>>
    /\ UNCHANGED authvars

\* ------------------------------------------------------------------------
\* The clock
\* ------------------------------------------------------------------------
Tick(d) ==
    /\ ticks < MaxTicks
    /\ now' = now + d
    /\ ticks' = ticks + 1
    /\ UNCHANGED <<store, pending, inflight, nextFid, callers, mutations,
                   nMut, payload, ssr>>
    /\ UNCHANGED authvars

\* ------------------------------------------------------------------------
\* Auth: tokens, the Authorization header and the shared generated client.
\* A string of the auth layer is a sequence of characters, so that
\* startsWith and the template `Bearer ${token}` are computed.
\* ------------------------------------------------------------------------
\* a value that may be undefined (token) or null (header)
Undefined == [some |-> FALSE, s |-> <<>>]

Some(s) == [some |-> TRUE, s |-> s]

BearerPrefix == <<"B", "e", "a", "r", "e", "r", " ">>

abc == <<"a", "b", "c">>

xyz == <<"x", "y", "z">>

\* the tokens a request or a caller may bring
Tokens == {Undefined, Some(<<>>), Some(abc), Some(xyz),
           Some(BearerPrefix \o abc), Some(BearerPrefix),
           Some(<<"B", "e", "a", "r", "e", "r">>),
           Some(<<"b", "e", "a", "r", "e", "r", " ">> \o abc)}

\* session.data.userId of a request
UserIds == {Undefined, Some(<<"1">>), Some(<<"2">>)}

Requests == {"r1", "r2"}

\* faulty variant: the scheme is applied to every token
AuthorizationOf_alwaysPrefixes(token) ==
    IF ~token.some \/ token.s = <<>>
    THEN Undefined
    ELSE Some(BearerPrefix \o token.s)

\* the header attachAuthToClient sets: !token removes it, a token that
\* starts with "Bearer " is kept, any other token gets the prefix
AuthorizationOf(token) ==
    IF ~token.some \/ token.s = <<>>
    THEN Undefined
    ELSE IF StartsWith(token.s, BearerPrefix)
         THEN Some(token.s)
         ELSE Some(BearerPrefix \o token.s)

\* client.setConfig({ headers: { Authorization: header } }) on the one
\* client object of the process
attachAuthToClient(cfg, token) ==
    [cfg EXCEPT !.Authorization = AuthorizationOf(token)]

NewRequest(token, userId) == [pc |-> "new", token |-> token, userId |-> userId]

NoRequest == [pc |-> "none", token |-> Undefined, userId |-> Undefined]

\* the call the generated client sends: the credential given with the call
\* if there is one, else the Authorization header of the shared config
OutgoingCall(r, auth) ==
    [req |-> r, cred |-> IF auth.some THEN auth ELSE config.Authorization]

\* initAuthForServer(token) with the token of the incoming request
initAuthForServer(r) ==
    /\ rq[r].pc = "new"
    /\ config' = attachAuthToClient(config, rq[r].token)
    /\ rq' = [rq EXCEPT ![r].pc = "authed"]
    /\ UNCHANGED sent
    /\ UNCHANGED pagevars
    /\ UNCHANGED cachevars

\* getPetsSsr of the loader: the token comes from the session and is
\* given with the call when there is one
getPetsSsr(r) ==
    /\ rq[r].pc = "authed"
    /\ LET token == IF rq[r].userId.some
                    THEN Some(BearerPrefix \o rq[r].userId.s)
                    ELSE Undefined
       IN  sent' = sent \cup {OutgoingCall(r, token)}
    /\ rq' = [rq EXCEPT ![r].pc = "loaded"]
    /\ UNCHANGED config
    /\ UNCHANGED pagevars
    /\ UNCHANGED cachevars

\* the queryFn of a hook run while the request renders: auth is undefined
ServerQueryFn(r) ==
    /\ rq[r].pc = "loaded"
    /\ sent' = sent \cup {OutgoingCall(r, Undefined)}
    /\ rq' = [rq EXCEPT ![r].pc = "rendered"]
    /\ UNCHANGED config
    /\ UNCHANGED pagevars
    /\ UNCHANGED cachevars

\* ------------------------------------------------------------------------
\* The browser page: the token kept in localStorage, and the AuthProvider
\* that calls fetchUser directly
\* ------------------------------------------------------------------------
\* the values setStoredToken may be given: every string, the empty one too
Strings == {t \in Tokens : t.some}

\* what `if (token)` and `!token` test: undefined and "" are falsy
Truthy(token) == token.some /\ token.s # <<>>

\* localStorage.getItem(STORAGE_KEY) ?? undefined; ok says that the storage
\* call does not throw, a throwing call yields undefined
getStoredToken(ok) == IF ok THEN stored ELSE Undefined

\* faulty variant: the token is stored and the client is left as it was
setStoredToken_storesOnly(token, ok) ==
    /\ IF ok THEN stored' = token ELSE UNCHANGED stored
    /\ UNCHANGED <<config, sent, rq, qc, provider>>
    /\ UNCHANGED cachevars

\* localStorage.setItem, then attachAuthToClient(token); a throwing
\* setItem ends the call before the client is touched
setStoredToken(token, ok) ==
    /\ IF ok
       THEN /\ stored' = token
            /\ config' = attachAuthToClient(config, token)
       ELSE UNCHANGED <<stored, config>>
    /\ UNCHANGED <<sent, rq, qc, provider>>
    /\ UNCHANGED cachevars

\* localStorage.removeItem, then attachAuthToClient(undefined)
clearStoredToken(ok) ==
    /\ IF ok
       THEN /\ stored' = Undefined
            /\ config' = attachAuthToClient(config, Undefined)
       ELSE UNCHANGED <<stored, config>>
    /\ UNCHANGED <<sent, rq, qc, provider>>
    /\ UNCHANGED cachevars

\* a user, or null
NoUser == "null"

Users == {"u1", "u2"}

\* useState(null), useState(true); no fetchUser call has been made
NewProvider == [mounted |-> FALSE, user |-> NoUser, isLoading |-> TRUE,
                started |-> 0, calls |-> {}]

\* fetchUser up to its await: setIsLoading(true), getCurrentUser() is called
fetchUser(p) ==
    [p EXCEPT !.isLoading = TRUE,
              !.started = p.started + 1,
              !.calls = p.calls \cup {p.started + 1}]

\* the client branch of getContext, run by getRouter before the router
\* renders: a stored token that is truthy is attached to the client
getContextOnClient(ok) ==
    /\ ~provider.mounted
    /\ LET token == getStoredToken(ok)
       IN  IF Truthy(token)
           THEN config' = attachAuthToClient(config, token)
           ELSE UNCHANGED config
    /\ UNCHANGED <<stored, sent, rq, qc, provider>>
    /\ UNCHANGED cachevars

\* useEffect(() => { fetchUser() }, []) of the AuthProvider
AuthProviderMounts ==
    /\ ~provider.mounted
    /\ provider.started < MaxUserFetches
    /\ provider' = [fetchUser(provider) EXCEPT !.mounted = TRUE]
    /\ UNCHANGED <<config, sent, rq, stored, qc>>
    /\ UNCHANGED cachevars

\* a consumer calls refetch of the context value, which is fetchUser
refetch ==
    /\ provider.mounted
    /\ provider.started < MaxUserFetches
    /\ provider' = fetchUser(provider)
    /\ UNCHANGED <<config, sent, rq, stored, qc>>
    /\ UNCHANGED cachevars

\* the await of call i returns: setUser(userData), finally setIsLoading(false)
getCurrentUserResolves(i, userData) ==
    /\ i \in provider.calls
    /\ provider' = [provider EXCEPT !.user = userData,
                                    !.isLoading = FALSE,
                                    !.calls = @ \ {i}]
    /\ UNCHANGED <<config, sent, rq, stored, qc>>
    /\ UNCHANGED cachevars

\* the await of call i throws: setUser(null), finally setIsLoading(false)
getCurrentUserRejects(i) ==
    /\ i \in provider.calls
    /\ provider' = [provider EXCEPT !.user = NoUser,
                                    !.isLoading = FALSE,
                                    !.calls = @ \ {i}]
    /\ UNCHANGED <<config, sent, rq, stored, qc>>
    /\ UNCHANGED cachevars

\* a render that has not called getRouter has no QueryClient
NoClient == 0

\* faulty variant: the QueryClient made by the first call is kept at module
\* level and returned again
getContext_moduleLevel ==
    IF DOMAIN store = {}
    THEN Cardinality(DOMAIN store) + 1
    ELSE CHOOSE q \in DOMAIN store : TRUE

\* the queryClient of getContext: new QueryClient(...), an object that did
\* not exist before the call.  QueryClients are numbered as they are made
getContext == Cardinality(DOMAIN store) + 1

\* render r calls getRouter: the router and its SSR integration get the
\* queryClient of this call's getContext
getRouter(r) ==
    /\ rq[r].pc = "new"
    /\ LET queryClient == getContext
       IN  /\ qc' = [qc EXCEPT ![r] = queryClient]
           /\ store' = Put(store, queryClient, EmptyStore)
           /\ pending' = Put(pending, queryClient, EmptyStore)
    /\ rq' = [rq EXCEPT ![r].pc = "routed"]
    /\ UNCHANGED <<inflight, nextFid, callers, now, ticks, mutations, nMut,
                   payload, ssr, config, sent, stored, provider>>

\* the component tree of render r reads through one caller
RenderCaller(r) == IF r = "r1" THEN "c1" ELSE "c2"

\* the route of render r renders: its hooks read the router's QueryClient
RenderReads(r) ==
    /\ rq[r].pc = "routed"
    /\ \/ \E status \in StatusArgs :
              useFindPetsByStatus(qc[r], RenderCaller(r), status, NoOptions)
       \/ useGetInventory(qc[r], RenderCaller(r),
                          StaleOption(InventoryStaleTime))

\* ------------------------------------------------------------------------
\* The client: hooks, settlements, mutations and invalidations on one store
\* ------------------------------------------------------------------------
Init ==
    /\ store = [s \in Sides |-> EmptyStore]
    /\ pending = [s \in Sides |-> EmptyStore]
    /\ inflight = {}
    /\ nextFid = 1
    /\ callers = [c \in Callers |-> IdleCaller]
    /\ now = 0
    /\ ticks = 0
    /\ mutations = [m \in MutationNames |-> IdleMutation]
    /\ nMut = 0
    /\ payload = {}
    /\ ssr = [pc |-> "none", variant |-> "none", pets |-> NoData]
    /\ config = [Authorization |-> Undefined]
    /\ sent = {}
    /\ rq = [r \in Requests |-> NoRequest]
    /\ stored = Undefined
    /\ qc = [r \in Requests |-> NoClient]
    /\ provider = NewProvider

ReadsPets(s, opts) ==
    \E c \in Callers, options \in opts, status \in StatusArgs :
        useFindPetsByStatus(s, c, status, options)

ReadsPet(s, opts) ==
    \E c \in Callers, options \in opts, petId \in IdArgs :
        useGetPetById(s, c, petId, options)

ReadsInventory(s, opts) ==
    \E c \in Callers, options \in opts :
        useGetInventory(s, c, options)

ReadsOrder(s, opts) ==
    \E c \in Callers, options \in opts, orderId \in OrderIdArgs :
        useGetOrderById(s, c, orderId, options)

\* the resource client answers a fetch of side s
Settles(s) ==
    \E f \in inflight :
        /\ f.side = s
        /\ \/ \E d \in DataVals : SettleSuccess(f, d)
           \/ \E e \in ErrVals : SettleError(f, e)
        /\ UNCHANGED others

Mutations ==
    \E m \in MutationNames :
        \/ Mutate(m)
        \/ MutationSuccess(m)
        \/ \E e \in ErrVals : MutationError(m, e)

\* reads of two keys with different stale times, against the clock
Next ==
    \/ ReadsPets("client", HookOptions)
    \/ ReadsInventory("client", HookOptions)
    \/ Settles("client")
    \/ \E d \in Deltas : Tick(d)

Spec == Init /\ [][Next]_vars

\* reads and invalidations on the client store
NextInv ==
    \/ ReadsPets("client", FewOptions)
    \/ ReadsPet("client", FewOptions)
    \/ ReadsInventory("client", FewOptions)
    \/ Settles("client")
    \/ \E h \in HelperNames : InvalidateBy("client", h)
    \/ \E prefix \in Prefixes : Invalidate("client", prefix)

SpecInv == Init /\ [][NextInv]_vars

\* reads and mutations of the demo route on the client store
NextMut ==
    \/ ReadsPets("client", FewOptions)
    \/ ReadsInventory("client", FewOptions)
    \/ Settles("client")
    \/ Mutations

SpecMut == Init /\ [][NextMut]_vars

\* ------------------------------------------------------------------------
\* SSR Hydration Bridge: snapshot(store) and hydrate(store, payload)
\* ------------------------------------------------------------------------
Triple(k, e) == [key |-> k, data |-> e.data, fetchedAt |-> e.fetchedAt]

\* faulty variant: every entry of the store is exported
snapshot_everything(st) == {Triple(k, st[k]) : k \in DOMAIN st}

\* only success entries are exported, as {key, data, fetchedAt}
snapshot(st) ==
    {Triple(k, st[k]) : k \in {x \in DOMAIN st : st[x].status = "success"}}

Hydrated(t) == Entry("success", t.data, t.fetchedAt, NoErr)

\* faulty variant: the payload replaces the entries the store already has
hydrate_overwrites(st, pl) ==
    [k \in (DOMAIN st) \cup {t.key : t \in pl} |->
        IF k \in {t.key : t \in pl}
        THEN Hydrated(CHOOSE t \in pl : t.key = k)
        ELSE st[k]]

\* a triple is inserted only when the store has no entry for its key
hydrate(st, pl) ==
    [k \in (DOMAIN st) \cup {t.key : t \in pl} |->
        IF k \in DOMAIN st
        THEN st[k]
        ELSE Hydrated(CHOOSE t \in pl : t.key = k)]

\* ------------------------------------------------------------------------
\* The /demo/petstore-ssr route: its two loaders, the server snapshot and
\* the client bootstrap
\* ------------------------------------------------------------------------
\* the caller record used for the loader's prefetchQuery
LoaderCaller == "c1"

\* faulty variant: the key the SSR guide writes out by hand
LoaderKey_flat ==
    <<Str("petstore"), Str("pets"), Str("status"), Str("available")>>

\* queryKey of the loader's prefetchQuery
LoaderKey == petsByStatus(<<"available">>)

\* prefetchQuery runs under the default stale time of the QueryClient
Prefetch ==
    GetOrFetch("server", LoaderCaller, LoaderKey, DEFAULT_STALE_TIME, TRUE)

\* awaiting loader: const pets = await getPetsSsr()
LoaderCallsGetPets ==
    /\ ssr.pc = "start"
    /\ ssr' = [pc |-> "getPets", variant |-> "await", pets |-> NoData]
    /\ UNCHANGED <<store, pending, inflight, nextFid, callers, now, ticks,
                   mutations, nMut, payload>>
    /\ UNCHANGED authvars

\* getPetsSsr returned; await prefetchQuery({queryFn: async () => pets})
GetPetsReturns(d) ==
    /\ ssr.pc = "getPets"
    /\ Prefetch
    /\ ssr' = [ssr EXCEPT !.pc = "prefetch", !.pets = d]
    /\ UNCHANGED <<now, ticks, mutations, nMut, payload>>
    /\ UNCHANGED authvars

\* getPetsSsr threw: the loader throws before it prefetches
GetPetsThrows ==
    /\ ssr.pc = "getPets"
    /\ ssr' = [ssr EXCEPT !.pc = "failed"]
    /\ UNCHANGED <<store, pending, inflight, nextFid, callers, now, ticks,
                   mutations, nMut, payload>>
    /\ UNCHANGED authvars

\* the queryFn of the awaiting loader returns pets; the loader returns
PrefetchSettles ==
    /\ ssr.pc = "prefetch"
    /\ \E f \in inflight :
          /\ f.side = "server"
          /\ f.key = LoaderKey
          /\ SettleSuccess(f, ssr.pets)
    /\ ssr' = [ssr EXCEPT !.pc = "loaded"]
    /\ UNCHANGED <<now, ticks, mutations, nMut, payload>>
    /\ UNCHANGED authvars

\* streaming loader: getPetsSsr() and prefetchQuery are started, not awaited
LoaderStreams ==
    /\ ssr.pc = "start"
    /\ Prefetch
    /\ ssr' = [pc |-> "streaming", variant |-> "stream", pets |-> NoData]
    /\ UNCHANGED <<now, ticks, mutations, nMut, payload>>
    /\ UNCHANGED authvars

\* petsPromise of the streaming loader settles, and the prefetch with it
PetsPromiseSettles ==
    /\ ssr.variant = "stream"
    /\ Settles("server")

\* the server exports its store once the loader has returned
Snapshot ==
    /\ ssr.pc \in {"loaded", "streaming"}
    /\ payload' = snapshot(store["server"])
    /\ ssr' = [ssr EXCEPT !.pc = "snapshotted"]
    /\ UNCHANGED <<store, pending, inflight, nextFid, callers, now, ticks,
                   mutations, nMut>>
    /\ UNCHANGED authvars

\* the client bootstrap replays the payload into its store
Hydrate ==
    /\ ssr.pc = "snapshotted"
    /\ store' = [store EXCEPT !["client"] = hydrate(@, payload)]
    /\ ssr' = [ssr EXCEPT !.pc = "hydrated"]
    /\ UNCHANGED <<pending, inflight, nextFid, callers, now, ticks,
                   mutations, nMut, payload>>
    /\ UNCHANGED authvars

InitSSR ==
    /\ store = [s \in Sides |-> EmptyStore]
    /\ pending = [s \in Sides |-> EmptyStore]
    /\ inflight = {}
    /\ nextFid = 1
    /\ callers = [c \in Callers |-> IdleCaller]
    /\ now = 0
    /\ ticks = 0
    /\ mutations = [m \in MutationNames |-> IdleMutation]
    /\ nMut = 0
    /\ payload = {}
    /\ ssr = [pc |-> "start", variant |-> "none", pets |-> NoData]
    /\ config = [Authorization |-> Undefined]
    /\ sent = {}
    /\ rq = [r \in Requests |-> NoRequest]
    /\ stored = Undefined
    /\ qc = [r \in Requests |-> NoClient]
    /\ provider = NewProvider

NextSSR ==
    \/ LoaderCallsGetPets
    \/ \E d \in DataVals : GetPetsReturns(d)
    \/ GetPetsThrows
    \/ PrefetchSettles
    \/ LoaderStreams
    \/ PetsPromiseSettles
    \/ Snapshot
    \/ Hydrate
    \/ ReadsPets("client", HookOptions)
    \/ Settles("client")
    \/ \E d \in Deltas : Tick(d)

SpecSSR == InitSSR /\ [][NextSSR]_vars

\* ------------------------------------------------------------------------
\* Reads of one pet and one order by id, with ids that disable the query
\* ------------------------------------------------------------------------
NextById ==
    \/ ReadsPet("client", FewOptions)
    \/ ReadsOrder("client", FewOptions)
    \/ Settles("client")

SpecById == Init /\ [][NextById]_vars

\* ------------------------------------------------------------------------
\* Reads of the pet list under status filters that hold the same values in
\* different order
\* ------------------------------------------------------------------------
FilterArgs == {<<"available", "sold">>, <<"sold", "available">>,
               <<"available">>, <<"pending", "available", "sold">>}

ReadsPetsFiltered(s, opts) ==
    \E c \in Callers, options \in opts, status \in FilterArgs :
        useFindPetsByStatus(s, c, status, options)

NextFilters ==
    \/ ReadsPetsFiltered("client", FewOptions)
    \/ Settles("client")

SpecFilters == Init /\ [][NextFilters]_vars

\* ------------------------------------------------------------------------
\* Pattern 2 of the SSR guide: the awaiting loader with the query key
\* written out by hand
\* ------------------------------------------------------------------------
\* queryKey: ["petstore", "pets", "status", "available"]
GuideKey == <<Str("petstore"), Str("pets"), Str("status"), Str("available")>>

GuidePrefetch ==
    GetOrFetch("server", LoaderCaller, GuideKey, DEFAULT_STALE_TIME, TRUE)

\* const pets = await getPetsSsr()
GuideLoaderCallsGetPets ==
    /\ ssr.pc = "start"
    /\ ssr' = [pc |-> "getPets", variant |-> "guide", pets |-> NoData]
    /\ UNCHANGED <<store, pending, inflight, nextFid, callers, now, ticks,
                   mutations, nMut, payload>>
    /\ UNCHANGED authvars

\* await prefetchQuery({queryKey: [...], queryFn: async () => pets})
GuideGetPetsReturns(d) ==
    /\ ssr.pc = "getPets"
    /\ GuidePrefetch
    /\ ssr' = [ssr EXCEPT !.pc = "prefetch", !.pets = d]
    /\ UNCHANGED <<now, ticks, mutations, nMut, payload>>
    /\ UNCHANGED authvars

GuidePrefetchSettles ==
    /\ ssr.pc = "prefetch"
    /\ \E f \in inflight :
          /\ f.side = "server"
          /\ f.key = GuideKey
          /\ SettleSuccess(f, ssr.pets)
    /\ ssr' = [ssr EXCEPT !.pc = "loaded"]
    /\ UNCHANGED <<now, ticks, mutations, nMut, payload>>
    /\ UNCHANGED authvars

NextGuide ==
    \/ GuideLoaderCallsGetPets
    \/ \E d \in DataVals : GuideGetPetsReturns(d)
    \/ GetPetsThrows
    \/ GuidePrefetchSettles
    \/ Snapshot
    \/ Hydrate
    \/ ReadsPets("client", HookOptions)
    \/ Settles("client")
    \/ \E d \in Deltas : Tick(d)

SpecGuide == InitSSR /\ [][NextGuide]_vars

\* ------------------------------------------------------------------------
\* Streaming SSR: the loader returns at once, PetstoreSSR reads on the
\* server while petsPromise is unsettled; petsPromise settles in the end
\* ------------------------------------------------------------------------
\* PetstoreSSR renders on the server once the loader has returned
ComponentReadsOnServer ==
    /\ ssr.variant = "stream"
    /\ ReadsPets("server", HookOptions)

NextStream ==
    \/ LoaderStreams
    \/ ComponentReadsOnServer
    \/ PetsPromiseSettles
    \/ Snapshot
    \/ Hydrate
    \/ ReadsPets("client", FewOptions)
    \/ Settles("client")

SpecStream ==
    /\ InitSSR
    /\ [][NextStream]_vars
    /\ WF_vars(PetsPromiseSettles)
    /\ WF_vars(Settles("client"))

\* ------------------------------------------------------------------------
\* The life of an entry: the awaiting loader fills the server store, the
\* client hydrates, reads, invalidates and refetches
\* ------------------------------------------------------------------------
NextLife ==
    \/ LoaderCallsGetPets
    \/ \E d \in DataVals : GetPetsReturns(d)
    \/ GetPetsThrows
    \/ PrefetchSettles
    \/ Snapshot
    \/ Hydrate
    \/ ReadsPets("client", FewOptions)
    \/ Settles("client")
    \/ InvalidateBy("client", "invalidatePetQueries")
    \/ \E d \in Deltas : Tick(d)

SpecLife == InitSSR /\ [][NextLife]_vars

\* ------------------------------------------------------------------------
\* One server process renders two requests; their steps interleave
\* ------------------------------------------------------------------------
InitAuth ==
    /\ store = [s \in Sides |-> EmptyStore]
    /\ pending = [s \in Sides |-> EmptyStore]
    /\ inflight = {}
    /\ nextFid = 1
    /\ callers = [c \in Callers |-> IdleCaller]
    /\ now = 0
    /\ ticks = 0
    /\ mutations = [m \in MutationNames |-> IdleMutation]
    /\ nMut = 0
    /\ payload = {}
    /\ ssr = [pc |-> "none", variant |-> "none", pets |-> NoData]
    /\ config = [Authorization |-> Undefined]
    /\ sent = {}
    /\ rq \in [Requests -> {NewRequest(t, u) : t \in Tokens, u \in UserIds}]
    /\ stored = Undefined
    /\ qc = [r \in Requests |-> NoClient]
    /\ provider = NewProvider

NextAuth ==
    \E r \in Requests :
        \/ initAuthForServer(r)
        \/ getPetsSsr(r)
        \/ ServerQueryFn(r)

SpecAuth == InitAuth /\ [][NextAuth]_vars

\* ------------------------------------------------------------------------
\* The demo page: its three reads with the options the page gives them, and
\* its mutations
\* ------------------------------------------------------------------------
\* the pet list and the pet by id render in one place, the inventory in
\* another
PetsCaller == "c1"

InventoryCaller == "c2"

PageReadsPets ==
    \E status \in StatusArgs :
        useFindPetsByStatus("client", PetsCaller, status, NoOptions)

PageReadsPet == useGetPetById("client", PetsCaller, 1, NoOptions)

\* the resource client answers a fetch of the page
PageSettles ==
    \E f \in inflight :
        /\ f.side = "client"
        /\ \/ SettleSuccess(f, "d1")
           \/ SettleError(f, "NetworkError")
        /\ UNCHANGED others

PageReadsInventory ==
    useGetInventory("client", InventoryCaller,
                    StaleOption(InventoryStaleTime))

NextPage ==
    \/ PageReadsPets
    \/ PageReadsPet
    \/ PageReadsInventory
    \/ PageSettles
    \/ Mutations

SpecPage == Init /\ [][NextPage]_vars

\* ------------------------------------------------------------------------
\* One store that holds entries of every kind of key, and the four helpers
\* ------------------------------------------------------------------------
ReadsAnyKey ==
    \E c \in Callers :
        \/ \E status \in StatusArgs :
               useFindPetsByStatus("client", c, status, NoOptions)
        \/ useGetPetById("client", c, 1, NoOptions)
        \/ useGetInventory("client", c, NoOptions)
        \/ useGetOrderById("client", c, 1, NoOptions)
        \/ useCurrentUser("client", c)

NextHelpers ==
    \/ ReadsAnyKey
    \/ PageSettles
    \/ \E h \in HelperNames : InvalidateBy("client", h)

SpecHelpers == Init /\ [][NextHelpers]_vars

\* ------------------------------------------------------------------------
\* One server process serves two renders; each calls getRouter and reads
\* through the QueryClient of its router, and their steps interleave
\* ------------------------------------------------------------------------
InitRouter ==
    /\ store = EmptyStore
    /\ pending = EmptyStore
    /\ inflight = {}
    /\ nextFid = 1
    /\ callers = [c \in Callers |-> IdleCaller]
    /\ now = 0
    /\ ticks = 0
    /\ mutations = [m \in MutationNames |-> IdleMutation]
    /\ nMut = 0
    /\ payload = {}
    /\ ssr = [pc |-> "none", variant |-> "none", pets |-> NoData]
    /\ config = [Authorization |-> Undefined]
    /\ sent = {}
    /\ rq = [r \in Requests |-> NewRequest(Undefined, Undefined)]
    /\ stored = Undefined
    /\ qc = [r \in Requests |-> NoClient]
    /\ provider = NewProvider

NextRouter ==
    \/ \E r \in Requests : getRouter(r)
    \/ \E r \in Requests : RenderReads(r)
    \/ \E q \in DOMAIN store : Settles(q)

SpecRouter == InitRouter /\ [][NextRouter]_vars

\* ------------------------------------------------------------------------
\* One browser page: the token is stored and cleared while the AuthProvider
\* loads the current user
\* ------------------------------------------------------------------------
InitBrowser ==
    /\ store = [s \in Sides |-> EmptyStore]
    /\ pending = [s \in Sides |-> EmptyStore]
    /\ inflight = {}
    /\ nextFid = 1
    /\ callers = [c \in Callers |-> IdleCaller]
    /\ now = 0
    /\ ticks = 0
    /\ mutations = [m \in MutationNames |-> IdleMutation]
    /\ nMut = 0
    /\ payload = {}
    /\ ssr = [pc |-> "none", variant |-> "none", pets |-> NoData]
    /\ config = [Authorization |-> Undefined]
    /\ sent = {}
    /\ rq = [r \in Requests |-> NoRequest]
    /\ stored \in {Undefined, Some(abc)}
    /\ qc = [r \in Requests |-> NoClient]
    /\ provider = NewProvider

NextBrowser ==
    \/ \E token \in Strings, ok \in BOOLEAN : setStoredToken(token, ok)
    \/ \E ok \in BOOLEAN : clearStoredToken(ok)
    \/ \E ok \in BOOLEAN : getContextOnClient(ok)
    \/ AuthProviderMounts
    \/ refetch
    \/ \E i \in 1..MaxUserFetches, userData \in Users \cup {NoUser} :
           getCurrentUserResolves(i, userData)
    \/ \E i \in 1..MaxUserFetches : getCurrentUserRejects(i)

SpecBrowser == InitBrowser /\ [][NextBrowser]_vars

\* ------------------------------------------------------------------------
\* Vocabulary of the properties
\* ------------------------------------------------------------------------
\* the underlying fetch calls in flight for a key of a store
InFlightFor(s, key) == {f \in inflight : f.side = s /\ f.key = key}

\* this step invoked the fetch function for key
FetchInvoked(s, key) ==
    /\ nextFid' = nextFid + 1
    /\ inflight' = inflight \cup {[fid |-> nextFid, side |-> s, key |-> key]}

\* this step invoked no fetch function
NoFetchInvoked == nextFid' = nextFid /\ inflight' = inflight

\* this step handed caller c the cached data of key
ServedFromCache(s, c, key) ==
    /\ key \in DOMAIN store[s]
    /\ callers'[c] = Done(s, key, 0, "data", store[s][key].data)
    /\ NoFetchInvoked

\* the stale time a read with these options runs under
PolicyStaleMs(options) ==
    IF options.hasStale THEN options.staleTime ELSE 120000

ClientKeys == {petsByStatus(<<"available">>), pet(1), inventory}

\* ------------------------------------------------------------------------
\* C1: request coalescing.  In every reachable state, for every store and
\* key at most one underlying fetch is in flight, however many getOrFetch
\* calls were issued for the key while it is unsettled; all callers waiting
\* on a key wait on that single fetch call.
\* ------------------------------------------------------------------------
C1_Coalescing ==
    /\ \A f, g \in inflight :
          (f.side = g.side /\ f.key = g.key) => f.fid = g.fid
    /\ \A c \in Callers :
          callers[c].st = "waiting" =>
              InFlightFor(callers[c].side, callers[c].key) =
                  {[fid |-> callers[c].fid, side |-> callers[c].side,
                    key |-> callers[c].key]}

\* both callers wait on one key and one fetch call is in flight for it
C1_Witness ==
    /\ callers["c1"].st = "waiting"
    /\ callers["c2"].st = "waiting"
    /\ callers["c1"].key = callers["c2"].key
    /\ Cardinality(InFlightFor("client", callers["c1"].key)) = 1
    /\ nextFid = 2

\* ------------------------------------------------------------------------
\* C2: every caller coalesced onto one in-flight fetch observes the same
\* settled outcome (the same data, or the same error), and no caller is
\* still waiting on a fetch that has settled.
\* ------------------------------------------------------------------------
C2_SameOutcome ==
    /\ \A c, d \in Callers :
          (/\ callers[c].st = "done"
           /\ callers[d].st = "done"
           /\ callers[c].fid # 0
           /\ callers[c].fid = callers[d].fid)
          => (callers[c].kind = callers[d].kind /\ callers[c].val = callers[d].val)
    /\ \A c \in Callers :
          callers[c].st = "waiting" =>
              \E f \in inflight : f.fid = callers[c].fid
    /\ \A c \in Callers, f \in inflight :
          (callers[c].st = "done") => callers[c].fid # f.fid

\* two callers coalesced onto fetch 1 were both rejected with its error
C2_Witness ==
    /\ callers["c1"].st = "done"
    /\ callers["c2"].st = "done"
    /\ callers["c1"].fid = 1
    /\ callers["c2"].fid = 1
    /\ callers["c1"].kind = "error"
    /\ callers["c1"].val = "AuthError"

\* ------------------------------------------------------------------------
\* C3: staleness window.  A hook read is served from the cache without
\* invoking the fetch function exactly when the entry exists with status
\* success and now - fetchedAt < staleMs; a success entry with
\* now - fetchedAt >= staleMs (always so when staleMs <= 0) makes the read
\* invoke the fetch function.
\* ------------------------------------------------------------------------
C3_Window(c, key, staleMs) ==
    LET inWindow == /\ key \in DOMAIN store["client"]
                    /\ store["client"][key].status = "success"
                    /\ now - store["client"][key].fetchedAt < staleMs
    IN  /\ inWindow <=> ServedFromCache("client", c, key)
        /\ inWindow => callers'[c].val = store["client"][key].data
        /\ (/\ key \in DOMAIN store["client"]
            /\ store["client"][key].status = "success"
            /\ now - store["client"][key].fetchedAt >= staleMs)
           => FetchInvoked("client", key)

C3_StalenessWindow ==
    [][\A c \in Callers, options \in HookOptions :
          /\ useGetInventory("client", c, options)
                => C3_Window(c, inventory, PolicyStaleMs(options))
          /\ \A status \in StatusArgs :
                useFindPetsByStatus("client", c, status, options)
                => C3_Window(c, petsByStatus(status), PolicyStaleMs(options))
      ]_vars

\* a read was served from the cache strictly inside the window, after the
\* clock had moved on from the fetch
C3_Witness ==
    \E c \in Callers :
        /\ callers[c].st = "done"
        /\ callers[c].fid = 0
        /\ callers[c].key = inventory
        /\ store["client"][inventory].status = "success"
        /\ now - store["client"][inventory].fetchedAt = 10000

\* ------------------------------------------------------------------------
\* C4: errors are not sticky.  After the fetch of a key has failed and its
\* waiters were rejected, the next getOrFetch for the key invokes the fetch
\* function again; the caller is not handed the earlier error.
\* ------------------------------------------------------------------------
C4_Retry(c, key) ==
    (/\ key \in DOMAIN store["client"]
     /\ store["client"][key].error # NoErr
     /\ key \notin DOMAIN pending["client"])
    => /\ FetchInvoked("client", key)
       /\ callers'[c].st = "waiting"
       /\ callers'[c].kind # "error"

C4_ErrorsNotSticky ==
    [][\A c \in Callers, options \in HookOptions :
          /\ useGetInventory("client", c, options) => C4_Retry(c, inventory)
          /\ \A status \in StatusArgs :
                useFindPetsByStatus("client", c, status, options)
                => C4_Retry(c, petsByStatus(status))
      ]_vars

\* a caller rejected by fetch 1 waits on a new fetch of the same key
C4_Witness ==
    \E c \in Callers :
        /\ callers[c].st = "waiting"
        /\ callers[c].fid = 2
        /\ store["client"][callers[c].key].status = "loading"
        /\ store["client"][callers[c].key].error # NoErr

\* ------------------------------------------------------------------------
\* C5: invalidate(prefix) sets status stale on every entry whose key starts
\* with prefix, deletes no entry, and leaves the data of each such entry
\* unchanged; the data of an entry stays as it is until a successful fetch
\* of that key replaces it.
\* ------------------------------------------------------------------------
PrefixOfHelper(h) ==
    CASE h = "invalidateAllPetstoreQueries" -> <<Str("petstore")>>
      [] h = "invalidatePetQueries" -> <<Str("petstore"), Str("pets")>>
      [] h = "invalidateInventoryQueries" -> <<Str("petstore"), Str("inventory")>>
      [] h = "invalidateOrderQueries" -> <<Str("petstore"), Str("orders")>>

Under(key, prefix) ==
    Len(prefix) <= Len(key) /\ SubSeq(key, 1, Len(prefix)) = prefix

C5_Effect(prefix) ==
    /\ DOMAIN store'["client"] = DOMAIN store["client"]
    /\ \A k \in DOMAIN store["client"] :
          Under(k, prefix) =>
              /\ store'["client"][k].status = "stale"
              /\ store'["client"][k].data = store["client"][k].data
              /\ store'["client"][k].fetchedAt = store["client"][k].fetchedAt

C5_DataKept ==
    \A k \in DOMAIN store["client"] :
        /\ k \in DOMAIN store'["client"]
        /\ store'["client"][k].data # store["client"][k].data
              => /\ store'["client"][k].status = "success"
                 /\ \E f \in inflight \ inflight' : f.key = k

C5_InvalidateMarksStale ==
    [][/\ \A h \in HelperNames :
             InvalidateBy("client", h) => C5_Effect(PrefixOfHelper(h))
       /\ \A prefix \in Prefixes :
             Invalidate("client", prefix) => C5_Effect(prefix)
       /\ C5_DataKept
      ]_vars

\* the pet entries are stale with their data, the inventory entry is not
C5_Witness ==
    /\ pet(1) \in DOMAIN store["client"]
    /\ store["client"][pet(1)].status = "stale"
    /\ store["client"][pet(1)].data = "d1"
    /\ inventory \in DOMAIN store["client"]
    /\ store["client"][inventory].status = "success"

\* ------------------------------------------------------------------------
\* C6 as stated: a getOrFetch of a key whose entry was marked stale invokes
\* the fetch function.
\* ------------------------------------------------------------------------
ReadOf(c, key) ==
    \E options \in FewOptions :
        \/ key = inventory /\ useGetInventory("client", c, options)
        \/ key = pet(1) /\ useGetPetById("client", c, 1, options)
        \/ \E status \in StatusArgs :
              key = petsByStatus(status)
              /\ useFindPetsByStatus("client", c, status, options)

IsStale(key) ==
    key \in DOMAIN store["client"] /\ store["client"][key].status = "stale"

C7_FailedMutationFrame ==
    [][\A m \in MutationNames, e \in ErrVals :
          MutationError(m, e) =>
              /\ store' = store
              /\ pending' = pending
              /\ callers' = callers
              /\ mutations'[m] = [st |-> "error", err |-> e]
      ]_vars

\* addPet failed while the pet list and the inventory are cached
C7_Witness ==
    /\ mutations["addPet"].st = "error"
    /\ mutations["addPet"].err = "NetworkError"
    /\ inventory \in DOMAIN store["client"]
    /\ store["client"][inventory].status = "success"
    /\ petsByStatus(<<"available">>) \in DOMAIN store["client"]
    /\ store["client"][petsByStatus(<<"available">>)].status = "success"

\* ------------------------------------------------------------------------
\* C8: hydration round trip.  The snapshot exports every success entry of
\* the server store with its data and fetchedAt; hydrating an empty client
\* store from the payload gives the client the same entries; a read of a
\* hydrated key inside its staleness window returns the snapshot's data and
\* invokes no fetch.  The awaiting loader prefetches under the key that
\* useFindPetsByStatus(["available"]) reads, so when no other fetch was
\* ever started, the component's first read inside the window is a cache
\* hit that returns the pets the loader fetched.
\* ------------------------------------------------------------------------
HookKey == <<Str("petstore"), Str("pets"), Str("status"), Arr(<<"available">>)>>

C8_Exported ==
    Snapshot =>
        \A k \in DOMAIN store["server"] :
            store["server"][k].status = "success" =>
                [key |-> k, data |-> store["server"][k].data,
                 fetchedAt |-> store["server"][k].fetchedAt] \in payload'

C8_Replayed ==
    (Hydrate /\ DOMAIN store["client"] = {}) =>
        /\ DOMAIN store'["client"] = {t.key : t \in payload}
        /\ \A t \in payload :
              store'["client"][t.key] =
                  [status |-> "success", data |-> t.data,
                   fetchedAt |-> t.fetchedAt, error |-> NoErr]

C8_Read(c, status, options) ==
    (/\ useFindPetsByStatus("client", c, status, options)
     /\ ssr.pc = "hydrated")
    => /\ \A t \in payload :
             (/\ t.key = petsByStatus(status)
              /\ t.key \in DOMAIN store["client"]
              /\ store["client"][t.key].status = "success"
              /\ store["client"][t.key].fetchedAt = t.fetchedAt
              /\ store["client"][t.key].data = t.data
              /\ now - t.fetchedAt < PolicyStaleMs(options))
             => /\ ServedFromCache("client", c, t.key)
                /\ callers'[c].val = t.data
       /\ (/\ status = <<"available">>
           /\ ssr.variant = "await"
           /\ nextFid = 2
           /\ \A k \in DOMAIN store["server"] :
                 now - store["server"][k].fetchedAt < PolicyStaleMs(options))
          => /\ NoFetchInvoked
             /\ callers'[c] = Done("client", HookKey, 0, "data", ssr.pets)

C8_HydrationRoundTrip ==
    [][/\ C8_Exported
       /\ C8_Replayed
       /\ \A c \in Callers, status \in StatusArgs, options \in HookOptions :
             C8_Read(c, status, options)
      ]_vars

\* after the awaiting loader, snapshot and hydration, some time later and
\* with no fetch but the loader's, the component's read was a cache hit
C8_Witness ==
    /\ ssr.pc = "hydrated"
    /\ ssr.variant = "await"
    /\ nextFid = 2
    /\ HookKey \in DOMAIN store["server"]
    /\ now - store["server"][HookKey].fetchedAt = 10000
    /\ callers["c2"] = Done("client", HookKey, 0, "data", ssr.pets)

\* ------------------------------------------------------------------------
\* C9: hydrate inserts a triple only when the store has no entry for its
\* key; every entry the client store holds before hydration keeps its
\* data, status and fetchedAt.
\* ------------------------------------------------------------------------
C9_HydrateKeepsExisting ==
    [][Hydrate =>
          /\ \A k \in DOMAIN store["client"] :
                /\ k \in DOMAIN store'["client"]
                /\ store'["client"][k] = store["client"][k]
          /\ \A k \in DOMAIN store'["client"] \ DOMAIN store["client"] :
                \E t \in payload :
                    /\ t.key = k
                    /\ store'["client"][k] =
                           [status |-> "success", data |-> t.data,
                            fetchedAt |-> t.fetchedAt, error |-> NoErr]
          /\ pending' = pending
      ]_vars

\* the client fetched the key itself before the server did; after
\* hydration it still holds its own, older entry, not the payload's
C9_Witness ==
    /\ ssr.pc = "hydrated"
    /\ \E t \in payload :
          /\ t.key \in DOMAIN store["client"]
          /\ store["client"][t.key].status = "success"
          /\ store["client"][t.key].fetchedAt < t.fetchedAt
          /\ store["client"][t.key].data # t.data

ServerFetchFailed ==
    \/ ssr.pc = "failed"
    \/ /\ LoaderKey \in DOMAIN store["server"]
       /\ store["server"][LoaderKey].status = "error"

\* the loader has returned, so the route renders and the store is exported
LoaderReturned == ssr.pc \in {"loaded", "streaming", "snapshotted", "hydrated"}

C11_RenderCompletes ==
    /\ ServerFetchFailed => LoaderReturned
    /\ (ServerFetchFailed /\ ssr.pc \in {"snapshotted", "hydrated"}) =>
           \A t \in payload : t.key # LoaderKey

\* ------------------------------------------------------------------------
\* C13: filter normalization.  For any two status arrays that contain the
\* same set of values in different order, petsByStatus yields equal key
\* sequences, so both reads address the same cache entry: the store never
\* holds two entries whose status filters are the same set of values.
\* ------------------------------------------------------------------------
SameSet(a, b) == {a[i] : i \in DOMAIN a} = {b[i] : i \in DOMAIN b}

IsStatusKey(k) == Len(k) = 4 /\ k[3] = Str("status") /\ k[4].kind = "arr"

C13_FilterNormalized ==
    /\ \A a, b \in FilterArgs :
          SameSet(a, b) =>
              \A k \in DOMAIN store["client"] :
                  k = petsByStatus(a) <=> k = petsByStatus(b)
    /\ \A k1, k2 \in DOMAIN store["client"] :
          (IsStatusKey(k1) /\ IsStatusKey(k2) /\ SameSet(k1[4].a, k2[4].a))
          => k1 = k2

\* ------------------------------------------------------------------------
\* C14 as stated: an absent token yields no credential; a token that
\* starts with "Bearer " is sent unmodified; any other token t is sent as
\* "Bearer " + t.
\* ------------------------------------------------------------------------
C14_Original ==
    [][\A r \in Requests :
          initAuthForServer(r) =>
              LET t == rq[r].token
              IN  /\ ~t.some => config'.Authorization = Undefined
                  /\ (t.some /\ StartsWith(t.s, BearerPrefix))
                        => config'.Authorization = Some(t.s)
                  /\ (t.some /\ ~StartsWith(t.s, BearerPrefix))
                        => config'.Authorization = Some(BearerPrefix \o t.s)
      ]_vars

\* ------------------------------------------------------------------------
\* C14 (amended): an absent or empty token leaves the client with no
\* Authorization header; a token that starts with "Bearer " becomes the
\* header unmodified; any other non-empty token t becomes "Bearer " + t;
\* attaching the header that is set as a token again leaves it as it is;
\* a call made without its own credential carries the header that is set,
\* or none.
\* ------------------------------------------------------------------------
C14_AuthAttachment ==
    [][\A r \in Requests :
          /\ initAuthForServer(r) =>
                LET t == rq[r].token
                IN  /\ (~t.some \/ Len(t.s) = 0)
                          => config'.Authorization = Undefined
                    /\ (t.some /\ StartsWith(t.s, BearerPrefix))
                          => config'.Authorization = Some(t.s)
                    /\ (t.some /\ Len(t.s) > 0
                               /\ ~StartsWith(t.s, BearerPrefix))
                          => config'.Authorization = Some(BearerPrefix \o t.s)
                    /\ config'.Authorization.some
                          => attachAuthToClient(config', config'.Authorization)
                                 = config'
          /\ ServerQueryFn(r) =>
                [req |-> r, cred |-> config.Authorization] \in sent'
      ]_vars

\* a request whose token already had the prefix was rendered alone, and its
\* call carried the token as it was
C14_Witness ==
    /\ rq["r1"].token = Some(BearerPrefix \o abc)
    /\ rq["r1"].pc = "rendered"
    /\ rq["r2"].pc = "new"
    /\ config.Authorization.s =
           <<"B", "e", "a", "r", "e", "r", " ", "a", "b", "c">>
    /\ [req |-> "r1", cred |-> config.Authorization] \in sent

\* ------------------------------------------------------------------------
\* C15: per-request auth isolation.  When two server-side renders
\* interleave in one process, every outgoing resource call carries only the
\* credential resolved for its own request (from its token or from its
\* session), or none.
\* ------------------------------------------------------------------------
OwnCredentials(r) ==
    {Undefined, AuthorizationOf(rq[r].token)}
    \cup (IF rq[r].userId.some
          THEN {Some(BearerPrefix \o rq[r].userId.s)}
          ELSE {})

C15_AuthIsolation ==
    \A call \in sent : call.cred \in OwnCredentials(call.req)

\* ------------------------------------------------------------------------
\* C16: a read whose policy is enabled=false (useGetPetById with
\* petId <= 0, useGetOrderById with orderId <= 0) issues no network call
\* and creates or changes no cache entry.
\* ------------------------------------------------------------------------
C16_Frame(key) ==
    /\ store' = store
    /\ pending' = pending
    /\ NoFetchInvoked
    /\ sent' = sent
    /\ key \notin DOMAIN store'["client"]

StatusOf(st, k) == IF k \in DOMAIN st THEN st[k].status ELSE "idle"

\* the status changes of this step, as <<side, key, from, to>>
StatusChanges ==
    {<<s, k, StatusOf(store[s], k), StatusOf(store'[s], k)>> :
        s \in Sides, k \in {LoaderKey}}

ClaimedTransitions ==
    {<<"idle", "loading">>, <<"loading", "success">>, <<"loading", "error">>,
     <<"success", "stale">>, <<"stale", "loading">>, <<"error", "loading">>}

C18_Settled(f, kind, v) ==
    /\ f.key \notin DOMAIN pending'[f.side]
    /\ \A c \in WaitersOf(f.side, f.key) :
          callers'[c] = [st |-> "done", side |-> f.side, key |-> f.key,
                         fid |-> f.fid, kind |-> kind, val |-> v]
    /\ \A c \in Callers :
          ~(callers'[c].st = "waiting" /\ callers'[c].fid = f.fid)

C18_Settlement ==
    \A f \in inflight :
        /\ \A d \in DataVals : SettleSuccess(f, d) => C18_Settled(f, "data", d)
        /\ \A e \in ErrVals : SettleError(f, e) => C18_Settled(f, "error", e)

C18_OnePerKey ==
    \A s \in Sides : \A k \in DOMAIN pending'[s] :
        InFlightFor(s, k)' = {[fid |-> pending'[s][k].fid, side |-> s, key |-> k]}

LoaderFetchInFlight ==
    /\ ssr.variant = "stream"
    /\ [fid |-> 1, side |-> "server", key |-> HookKey] \in inflight

C19_Joins ==
    \A c \in Callers, options \in HookOptions :
        (LoaderFetchInFlight
         /\ useFindPetsByStatus("server", c, <<"available">>, options))
        => /\ NoFetchInvoked
           /\ store'["server"][HookKey].status = "loading"
           /\ callers'[c].st = "waiting"
           /\ callers'[c].fid = 1

C19_SameOutcome ==
    \A c \in Callers :
        (callers[c].st = "waiting" /\ callers[c].side = "server"
                                   /\ callers[c].fid = 1) =>
            /\ \A d \in DataVals :
                  SettleSuccess([fid |-> 1, side |-> "server", key |-> HookKey], d)
                  => /\ callers'[c].st = "done"
                     /\ callers'[c].kind = "data"
                     /\ callers'[c].val = d
                     /\ callers'[c] = callers'[LoaderCaller]
            /\ \A e \in ErrVals :
                  SettleError([fid |-> 1, side |-> "server", key |-> HookKey], e)
                  => /\ callers'[c].st = "done"
                     /\ callers'[c].kind = "error"
                     /\ callers'[c].val = e
                     /\ callers'[c] = callers'[LoaderCaller]

C20_GuidePattern2 ==
    [][/\ \A k \in DOMAIN store'["server"] :
             k = petsByStatus(<<"available">>)
       /\ \A c \in Callers, options \in HookOptions :
             (/\ useFindPetsByStatus("client", c, <<"available">>, options)
              /\ ssr.pc = "hydrated"
              /\ ssr.variant = "guide"
              /\ nextFid = 2
              /\ \A k \in DOMAIN store["server"] :
                    now - store["server"][k].fetchedAt < PolicyStaleMs(options))
             => /\ NoFetchInvoked
                /\ callers'[c].st = "done"
                /\ callers'[c].val = ssr.pets
      ]_vars


\* the Authorization header that carries the token t: t itself when it
\* starts with "Bearer ", else "Bearer " + t
CarriesToken(header, t) ==
    /\ header.some
    /\ header.s = IF StartsWith(t.s, BearerPrefix)
                  THEN t.s
                  ELSE BearerPrefix \o t.s

PageRead(c, key) ==
    \/ key = inventory
       /\ useGetInventory("client", c, StaleOption(InventoryStaleTime))
    \/ key = pet(1) /\ useGetPetById("client", c, 1, NoOptions)
    \/ \E status \in StatusArgs :
          key = petsByStatus(status)
          /\ useFindPetsByStatus("client", c, status, NoOptions)

\* the entries a step turned stale
TurnedStale ==
    {k \in DOMAIN store'["client"] :
        /\ store'["client"][k].status = "stale"
        /\ StatusOf(store["client"], k) # "stale"}

\* mutation m settled successfully in this step
SettledSuccessfully(m) ==
    mutations[m].st = "pending" /\ mutations'[m].st = "success"

C23_Named(h, k) ==
    CASE h = "invalidatePetQueries" ->
             \/ k = <<Str("petstore"), Str("pets")>>
             \/ /\ Len(k) = 3
                /\ SubSeq(k, 1, 2) = <<Str("petstore"), Str("pets")>>
                /\ k[3].kind = "num"
             \/ /\ Len(k) = 4
                /\ SubSeq(k, 1, 3)
                      = <<Str("petstore"), Str("pets"), Str("status")>>
                /\ k[4].kind = "arr"
      [] h = "invalidateInventoryQueries" ->
             Under(k, <<Str("petstore"), Str("inventory")>>)
      [] h = "invalidateOrderQueries" ->
             Under(k, <<Str("petstore"), Str("orders")>>)
      [] h = "invalidateAllPetstoreQueries" ->
             Len(k) >= 1 /\ k[1] = Str("petstore")

\* ------------------------------------------------------------------------
\* C23: invalidation is exact on the key hierarchy.  invalidatePetQueries
\* marks stale exactly the entries whose key was built by pets(), pet(id)
\* or petsByStatus(s); invalidateInventoryQueries and
\* invalidateOrderQueries exactly the entries under their own prefix;
\* invalidateAllPetstoreQueries exactly the entries built by a petstoreKeys
\* builder.  Every other entry (inventory, order, non-petstore) is left as
\* it is, no entry is added or removed, and a marked entry keeps its data,
\* fetchedAt and error.
\* ------------------------------------------------------------------------
C23_ExactInvalidation ==
    [][\A h \in HelperNames :
          InvalidateBy("client", h) =>
              /\ DOMAIN store'["client"] = DOMAIN store["client"]
              /\ \A k \in DOMAIN store["client"] :
                    IF C23_Named(h, k)
                    THEN store'["client"][k]
                            = [store["client"][k] EXCEPT !.status = "stale"]
                    ELSE store'["client"][k] = store["client"][k]
              /\ pending' = pending
              /\ callers' = callers
      ]_vars

\* the pet list was invalidated while the current user, a key outside the
\* petstore domain, is cached: the first is stale, the second is not
C23_Witness ==
    /\ IsStale(petsByStatus(<<"available">>))
    /\ currentUser \in DOMAIN store["client"]
    /\ store["client"][currentUser].status = "success"


\* this step was a read of key by the component tree of render r
RenderRead(r, key) ==
    /\ qc[r] # NoClient
    /\ \/ key = inventory
          /\ useGetInventory(qc[r], RenderCaller(r),
                             StaleOption(InventoryStaleTime))
       \/ \E status \in StatusArgs :
             key = petsByStatus(status)
             /\ useFindPetsByStatus(qc[r], RenderCaller(r), status,
                                    NoOptions)

\* ------------------------------------------------------------------------
\* C24: each getRouter() call obtains a fresh Cache Store: the QueryClient
\* of the call did not exist before, it is empty, and no other render has
\* it; whatever the other render has fetched or is fetching, the first read
\* of a render misses and invokes its own fetch; a render only ever waits
\* on, and is only ever handed data of, the store of its own router; a
\* settlement writes only the store of the render that started the fetch.
\* ------------------------------------------------------------------------
C24_FreshStorePerRouter ==
    [][/\ \A r \in Requests :
             getRouter(r) =>
                 /\ qc'[r] \notin DOMAIN store
                 /\ store'[qc'[r]] = EmptyStore
                 /\ \A o \in Requests \ {r} : qc'[o] # qc'[r]
       /\ \A r \in Requests, key \in {inventory, HookKey} :
             (callers[RenderCaller(r)].st = "idle" /\ RenderRead(r, key))
             => FetchInvoked(qc[r], key)
       /\ \A r \in Requests :
             callers'[RenderCaller(r)].st \in {"waiting", "done"}
             => callers'[RenderCaller(r)].side = qc'[r]
       /\ \A f \in inflight \ inflight' :
             \A q \in DOMAIN store \ {f.side} : store'[q] = store[q]
      ]_vars

\* both renders read the pet list; each was handed the data of its own
\* fetch and each store holds its own entry
C24_Witness ==
    /\ qc["r1"] # NoClient
    /\ qc["r2"] # NoClient
    /\ callers["c1"] = Done(qc["r1"], HookKey, 1, "data", "d1")
    /\ callers["c2"] = Done(qc["r2"], HookKey, 2, "data", "d2")
    /\ store[qc["r1"]][HookKey].data = "d1"
    /\ store[qc["r2"]][HookKey].data = "d2"


\* ------------------------------------------------------------------------
\* C25: in the AuthProvider that calls fetchUser directly, isLoading is true
\* in every state in which some fetchUser call has not yet settled, also
\* when refetch() was invoked while an earlier call was in flight.
\* ------------------------------------------------------------------------
C25_LoadingWhileInFlight ==
    provider.calls # {} => provider.isLoading

====
